---- MODULE Spec2Model ----
(***************************************************************************)
(* MENACE (Matchbox Educable Noughts and Crosses Engine).                  *)
(*                                                                         *)
(* A model of menace/game.py (Board, winner), menace/menace.py             *)
(* (TRANSFORMS, permute, canonicalize, invert_perm, class MENACE),         *)
(* menace/opponent.py (random_opponent_move) and menace/train.py           *)
(* (play_game_once, train_menace).                                         *)
(*                                                                         *)
(* A Python list of 9 cells is a function on 0..8, so that move indices    *)
(* are the program's indices.  A Python string (a canonical key) is a      *)
(* sequence of characters, compared as Python compares strings.            *)
(* random.choice is a nondeterministic draw (see Draws).                   *)
(***************************************************************************)
EXTENDS Integers, Sequences, FiniteSets, TLC

VARIABLES
    matchboxes,     \* MENACE.matchboxes: canonical key -> Counter (move -> beads)
    init_beads,     \* MENACE.init_beads
    reward_win,     \* MENACE.reward_win
    reward_draw,    \* MENACE.reward_draw
    reward_loss,    \* MENACE.reward_loss
    cells,          \* Board.cells of the board of the running game
    turn,           \* play_game_once: turn
    history,        \* play_game_once: history (the caller's list of log entries)
    res,            \* play_game_once: res, the value it returns
    n_games,        \* train_menace: n_games
    report_every,   \* train_menace: report_every
    i,              \* train_menace: the loop variable i
    totals,         \* train_menace: totals
    stats,          \* train_menace: stats
    pc,             \* position of the driver
    last,           \* the most recent call of the agent's interface, with its result
    deviations      \* draws of the random source that were not the first element

vars == << matchboxes, init_beads, reward_win, reward_draw, reward_loss,
           cells, turn, history, res, n_games, report_every, i, totals,
           stats, pc, last, deviations >>

agentCfg == << init_beads, reward_win, reward_draw, reward_loss >>
gameVars == << cells, turn, history, res >>
trainVars == << n_games, report_every, i, totals, stats >>

----------------------------------------------------------------------------
(* Bounds of the model *)

MaxGames == 2           \* n_games is drawn from 1..MaxGames
MaxReportEvery == 2     \* report_every is drawn from 1..MaxReportEvery
DrawWidth == 2          \* a draw explores the first DrawWidth distinct elements
MaxDeviations == 2      \* draws per run that are not the first element
MaxInitBeads == 4       \* init_beads is drawn from 1..MaxInitBeads
MaxHist == 2            \* entries a caller of the agent collects in one history
MaxFairGames == 1       \* n_games of the runs checked under fairness
MaxBeads == 7           \* update is called while the counters stay <= MaxBeads

----------------------------------------------------------------------------
(* game.py *)

EMPTY == " "
None == "None"
Idx == 0..8
Symbols == {EMPTY, "X", "O"}

\* Board.__init__
EmptyBoard == [c \in Idx |-> EMPTY]

\* the sorted list of the elements of a set of integers
SortedSeq(S) ==
    [n \in 1..Cardinality(S) |->
        CHOOSE x \in S : Cardinality({y \in S : y < x}) = n - 1]

\* Board.available_moves
available_moves(b) == SortedSeq({c \in Idx : b[c] = EMPTY})

make_move_overwrite(b, index, symbol) ==
    [cells |-> [b EXCEPT ![index] = symbol], ok |-> TRUE]

\* Board.make_move: the cells after the call and the value returned
make_move(b, index, symbol) ==
    IF b[index] = EMPTY
    THEN [cells |-> [b EXCEPT ![index] = symbol], ok |-> TRUE]
    ELSE [cells |-> b, ok |-> FALSE]

lines_missing_diagonal ==
    << <<0,1,2>>, <<3,4,5>>, <<6,7,8>>,
       <<0,3,6>>, <<1,4,7>>, <<2,5,8>>,
       <<0,4,8>> >>

lines ==
    << <<0,1,2>>, <<3,4,5>>, <<6,7,8>>,
       <<0,3,6>>, <<1,4,7>>, <<2,5,8>>,
       <<0,4,8>>, <<2,4,6>> >>

\* the loop of winner over lines, from line n on
RECURSIVE winner_from(_, _)
winner_from(b, n) ==
    IF n > Len(lines)
    THEN IF \A c \in Idx : b[c] # EMPTY THEN "D" ELSE None
    ELSE LET l == lines[n]
         IN  IF b[l[1]] # EMPTY /\ b[l[1]] = b[l[2]] /\ b[l[2]] = b[l[3]]
             THEN b[l[1]]
             ELSE winner_from(b, n + 1)

winner_no_draw(b) ==
    LET w == winner_from(b, 1) IN IF w = "D" THEN None ELSE w

winner(b) == winner_from(b, 1)

----------------------------------------------------------------------------
(* menace.py: symmetry reduction *)

TRANSFORMS_bad ==
    << <<0,1,2,3,4,5,6,7,8>>,
       <<6,3,0,7,4,1,8,5,2>>,
       <<8,7,6,5,4,3,2,1,0>>,
       <<2,5,8,1,4,7,0,3,6>>,
       <<2,1,0,5,4,3,8,7,6>>,
       <<6,7,8,3,4,5,0,1,2>>,
       <<0,3,6,1,4,7,2,5,8>>,
       <<8,5,2,7,4,1,6,0,3>> >>

TRANSFORMS ==
    << <<0,1,2,3,4,5,6,7,8>>,
       <<6,3,0,7,4,1,8,5,2>>,
       <<8,7,6,5,4,3,2,1,0>>,
       <<2,5,8,1,4,7,0,3,6>>,
       <<2,1,0,5,4,3,8,7,6>>,
       <<6,7,8,3,4,5,0,1,2>>,
       <<0,3,6,1,4,7,2,5,8>>,
       <<8,5,2,7,4,1,6,3,0>> >>

\* [board[i] for i in perm]
permute(board, perm) == [j \in Idx |-> board[perm[j + 1]]]

\* ''.join(b): the string whose characters are the cells
Join(b) == [n \in 1..9 |-> b[n - 1]]

\* list(can_str): the list of the characters of a string
ListOf(s) == [c \in Idx |-> s[c + 1]]

\* ord() of the three characters a key is made of
Ord(ch) == IF ch = " " THEN 32 ELSE IF ch = "O" THEN 79 ELSE 88

\* s < t on strings of equal length
StrLess(s, t) ==
    \E n \in 1..Len(s) :
        /\ Ord(s[n]) < Ord(t[n])
        /\ \A k \in 1..(n - 1) : s[k] = t[k]

\* the last index of a smallest element
min_idx_last(boards) ==
    CHOOSE n \in 1..Len(boards) :
        /\ \A k \in 1..(n - 1) : ~StrLess(boards[k], boards[n])
        /\ \A k \in (n + 1)..Len(boards) : StrLess(boards[n], boards[k])

\* min(range(len(boards)), key=lambda i: boards[i]): the first index of a
\* smallest element
min_idx_of(boards) ==
    CHOOSE n \in 1..Len(boards) :
        /\ \A k \in 1..(n - 1) : StrLess(boards[n], boards[k])
        /\ \A k \in (n + 1)..Len(boards) : ~StrLess(boards[k], boards[n])

\* the one element of a singleton set
The(S) == CHOOSE x \in S : TRUE

\* canonicalize: boards = [''.join(permute(board, t)) for t in TRANSFORMS]
boards_of(board) ==
    [t \in 1..Len(TRANSFORMS) |-> Join(permute(board, TRANSFORMS[t]))]

canonicalize(board) ==
    The({The({[key |-> boards[min_idx], perm |-> TRANSFORMS[min_idx]]
                : min_idx \in {min_idx_of(boards)}})
           : boards \in {boards_of(board)}})

\* inv[i] = p in place of inv[p] = i
invert_perm_swapped(perm) == [n \in 1..9 |-> perm[n]]

\* inv = [0]*9; for i,p in enumerate(perm): inv[p] = i
invert_perm(perm) ==
    [n \in 1..9 |->
        LET hits == {k \in Idx : perm[k + 1] = n - 1}
        IN  IF hits = {} THEN 0 ELSE CHOOSE k \in hits : \A h \in hits : h <= k]

----------------------------------------------------------------------------
(* menace.py: class MENACE *)

\* dict(): the mapping with no key
EmptyDict == [k \in {} |-> 0]

\* Counter.__getitem__: a missing move counts 0
CounterGet(beads, m) == IF m \in DOMAIN beads THEN beads[m] ELSE 0

\* Counter.__setitem__
CounterSet(beads, m, v) ==
    [x \in (DOMAIN beads) \cup {m} |-> IF x = m THEN v ELSE beads[x]]

_ensure_box_all_cells(mb, ib, board) ==
    The({LET can_str == c.key
             beads == [m \in Idx |-> ib]
         IN  [can_str |-> can_str,
              perm |-> c.perm,
              boxes |-> IF can_str \in DOMAIN mb THEN mb
                        ELSE [k \in (DOMAIN mb) \cup {can_str} |->
                                 IF k = can_str THEN beads ELSE mb[k]]]
           : c \in {canonicalize(board)}})

_ensure_box_always_new(mb, ib, board) ==
    The({LET can_str == c.key
             b == ListOf(can_str)
             moves == {m \in Idx : b[m] = EMPTY}
             beads == [m \in moves |-> ib]
         IN  [can_str |-> can_str,
              perm |-> c.perm,
              boxes |-> [k \in (DOMAIN mb) \cup {can_str} |->
                                 IF k = can_str THEN beads ELSE mb[k]]]
           : c \in {canonicalize(board)}})

\* a new matchbox replaces the dict: self.matchboxes = {can_str: beads}
_ensure_box_forgetful(mb, ib, board) ==
    The({LET can_str == c.key
             b == ListOf(can_str)
             moves == {m \in Idx : b[m] = EMPTY}
             beads == [m \in moves |-> ib]
         IN  [can_str |-> can_str,
              perm |-> c.perm,
              boxes |-> IF can_str \in DOMAIN mb THEN mb
                        ELSE [k \in {can_str} |-> beads]]
           : c \in {canonicalize(board)}})

\* the matchbox is stored under the board as given, not under its key
_ensure_box_raw_key(mb, ib, board) ==
    LET can_str == Join(board)
        moves == {m \in Idx : board[m] = EMPTY}
        beads == [m \in moves |-> ib]
    IN  [can_str |-> can_str,
         perm |-> TRANSFORMS[1],
         boxes |-> IF can_str \in DOMAIN mb THEN mb
                   ELSE [k \in (DOMAIN mb) \cup {can_str} |->
                            IF k = can_str THEN beads ELSE mb[k]]]

\* MENACE._ensure_box: the value returned and self.matchboxes after the call
_ensure_box(mb, ib, board) ==
    The({LET can_str == c.key
             b == ListOf(can_str)
             moves == {m \in Idx : b[m] = EMPTY}
             beads == [m \in moves |-> ib]
         IN  [can_str |-> can_str,
              perm |-> c.perm,
              boxes |-> IF can_str \in DOMAIN mb THEN mb
                        ELSE [k \in (DOMAIN mb) \cup {can_str} |->
                                 IF k = can_str THEN beads ELSE mb[k]]]
           : c \in {canonicalize(board)}})

\* a pool that leaves out a move with a single bead
Max1_off_by_one(count) == IF count > 1 THEN count - 1 ELSE 0

\* max(1, count)
Max1(count) == IF count > 1 THEN count ELSE 1

\* [move] * n
RECURSIVE Copies(_, _)
Copies(move, n) == IF n <= 0 THEN << >> ELSE << move >> \o Copies(move, n - 1)

\* choose_move: the list choices, built over beads.items() in insertion order
\* (_ensure_box inserts the moves in ascending order)
RECURSIVE choices_from(_, _)
choices_from(beads, order) ==
    IF order = << >> THEN << >>
    ELSE Copies(Head(order), Max1(beads[Head(order)]))
            \o choices_from(beads, Tail(order))

choices_of_padded(beads) ==
    IF DOMAIN beads = {} THEN << 0 >>
    ELSE choices_from(beads, SortedSeq(DOMAIN beads))

choices_of(beads) == choices_from(beads, SortedSeq(DOMAIN beads))

\* The elements random.choice(seq) is explored to return: always the first
\* element of seq; while the run has deviations left, also each of the first
\* DrawWidth distinct elements of seq.
Draws(seq, dev) ==
    IF seq = << >> THEN {}
    ELSE {seq[1]} \cup
         (IF dev < MaxDeviations
          THEN {seq[r] : r \in {q \in 1..Len(seq) :
                    Cardinality({seq[p] : p \in 1..q}) <= DrawWidth}}
          ELSE {})

Deviation(seq, x) == IF x = seq[1] THEN 0 ELSE 1

\* choose_move after the draw: translate the drawn canonical move
translate(perm, chosen_can_move) ==
    LET inv_perm == invert_perm(perm) IN inv_perm[chosen_can_move + 1]

\* MENACE.choose_move from "choices = []" on: eb is what _ensure_box returned,
\* choices the list built from its beads
choose_move_from(mb, board, eb, choices, dev) ==
    LET created == eb.can_str \notin DOMAIN mb
    IN  IF choices = << >>
        THEN {[boxes |-> eb.boxes, cost |-> 0,
               ret |-> [op |-> "choose_move", board |-> board,
                        created |-> created, raised |-> "IndexError"]]}
        ELSE {[boxes |-> eb.boxes,
               cost |-> Deviation(choices, chosen_can_move),
               ret |-> [op |-> "choose_move", board |-> board,
                        created |-> created,
                        move |-> translate(eb.perm, chosen_can_move),
                        log |-> << eb.can_str, chosen_can_move >>]]
                : chosen_can_move \in Draws(choices, dev)}

\* MENACE.choose_move: one outcome per draw explored; an outcome holds
\* self.matchboxes after the call, the deviation the draw costs, and the call
\* with the value it returns (or the exception random.choice([]) raises)
choose_move(mb, ib, board, dev) ==
    UNION {UNION {choose_move_from(mb, board, eb, choices, dev)
                    : choices \in {choices_of(eb.boxes[eb.can_str])}}
             : eb \in {_ensure_box(mb, ib, board)}}

\* MENACE.update, entry by entry
no_clamp(v) == v

clamp(v) == IF v < 1 THEN 1 ELSE v

delta_of_draw_as_loss(result, rw, rd, rl) ==
    IF result = "X" THEN rw ELSE rl

delta_of(result, rw, rd, rl) ==
    IF result = "X" THEN rw ELSE IF result = "D" THEN rd ELSE rl

\* break in place of continue at an entry without a matchbox
update_from_break(mb, hist, delta) ==
    LET known == {n \in 1..Len(hist) : \A q \in 1..n : hist[q][1] \in DOMAIN mb}
        upto == Cardinality(known)
        F[n \in 0..upto] ==
            IF n = 0 THEN mb
            ELSE [F[n - 1] EXCEPT ![hist[n][1]] =
                    CounterSet(@, hist[n][2],
                               clamp(CounterGet(@, hist[n][2]) + delta))]
    IN  F[upto]

\* an entry without a matchbox gets one
update_from_creating(mb, hist, delta) ==
    LET F[n \in 0..Len(hist)] ==
            IF n = 0 THEN mb
            ELSE LET prev == F[n - 1]
                     can_str == hist[n][1]
                     move == hist[n][2]
                 IN  IF can_str \in DOMAIN prev
                     THEN [prev EXCEPT ![can_str] =
                             CounterSet(@, move, clamp(CounterGet(@, move) + delta))]
                     ELSE [k \in (DOMAIN prev) \cup {can_str} |->
                             IF k = can_str
                             THEN CounterSet(EmptyDict, move, clamp(delta))
                             ELSE prev[k]]
    IN  F[Len(hist)]

\* delta goes to every move of the matchbox of an entry
update_from_whole_box(mb, hist, delta) ==
    LET F[n \in 0..Len(hist)] ==
            IF n = 0 THEN mb
            ELSE LET prev == F[n - 1]
                     can_str == hist[n][1]
                 IN  IF can_str \notin DOMAIN prev THEN prev
                     ELSE [prev EXCEPT ![can_str] =
                             [m \in DOMAIN @ |-> clamp(@[m] + delta)]]
    IN  F[Len(hist)]

RECURSIVE update_from(_, _, _)
update_from(mb, hist, delta) ==
    IF hist = << >> THEN mb
    ELSE LET can_str == Head(hist)[1]
             move == Head(hist)[2]
         IN  IF can_str \notin DOMAIN mb
             THEN update_from(mb, Tail(hist), delta)
             ELSE update_from(
                    [mb EXCEPT ![can_str] =
                        CounterSet(@, move, clamp(CounterGet(@, move) + delta))],
                    Tail(hist), delta)

update(mb, hist, result, rw, rd, rl) ==
    update_from(mb, hist, delta_of(result, rw, rd, rl))

\* the counters a history's entries have in mb, entry by entry
beads_of(mb, hist) ==
    [n \in 1..Len(hist) |->
        IF hist[n][1] \in DOMAIN mb THEN CounterGet(mb[hist[n][1]], hist[n][2])
        ELSE 0]

\* MENACE.inspect_box: the value returned and self.matchboxes after the call
inspect_box(mb, ib, board) ==
    LET eb == _ensure_box(mb, ib, board)
        beads == eb.boxes[eb.can_str]
        inv_perm == invert_perm(eb.perm)
        keys == {inv_perm[m + 1] : m \in DOMAIN beads}
    IN  [can_str |-> eb.can_str,
         mapping |-> [o \in keys |->
                        LET ms == {m \in DOMAIN beads : inv_perm[m + 1] = o}
                        IN  beads[CHOOSE m \in ms : \A x \in ms : x <= m]],
         boxes |-> eb.boxes]

----------------------------------------------------------------------------
(* train.py: train_menace, with play_game_once in line *)

\* train_menace: m = MENACE(); stats = []; totals = {...}
Init ==
    /\ matchboxes = EmptyDict
    /\ init_beads = 4
    /\ reward_win = 3
    /\ reward_draw = 1
    /\ reward_loss = -1
    /\ n_games \in 1..MaxGames
    /\ report_every \in 1..MaxReportEvery
    /\ i = 0
    /\ totals = [X |-> 0, O |-> 0, D |-> 0]
    /\ stats = << >>
    /\ cells = EmptyBoard
    /\ turn = "X"
    /\ history = << >>
    /\ res = None
    /\ pc = "loop"
    /\ last = [op |-> "init"]
    /\ deviations = 0

\* for i in range(1, n_games+1): play_game_once: board = Board(); turn = 'X'; history = []
StartGame ==
    /\ pc = "loop"
    /\ i < n_games
    /\ i' = i + 1
    /\ cells' = EmptyBoard
    /\ turn' = "X"
    /\ history' = << >>
    /\ res' = None
    /\ pc' = "play"
    /\ UNCHANGED << matchboxes, agentCfg, n_games, report_every, totals,
                    stats, last, deviations >>

\* play_game_once, one iteration with turn == 'X'
AgentTurn ==
    /\ pc = "play"
    /\ turn = "X"
    /\ \E r \in choose_move(matchboxes, init_beads, cells, deviations) :
          /\ matchboxes' = r.boxes
          /\ last' = r.ret
          /\ deviations' = deviations + r.cost
          /\ IF "raised" \in DOMAIN r.ret
             THEN /\ pc' = "crashed"
                  /\ UNCHANGED gameVars
             ELSE \E mm \in {make_move(cells, r.ret.move, "X")} :
                  \E w \in {winner(mm.cells)} :
                     /\ cells' = mm.cells
                     /\ history' = Append(history, r.ret.log)
                     /\ res' = w
                     /\ IF w # None
                        THEN pc' = "returned" /\ turn' = turn
                        ELSE pc' = pc /\ turn' = "O"
    /\ UNCHANGED << agentCfg, trainVars >>

\* the value None where a move (an int) is expected
NoMove == -1

\* opponent.py, random_opponent_move: the moves explored, None without a legal move
random_opponent_move(b, dev) ==
    LET legal == available_moves(b)
    IN  IF legal = << >> THEN {NoMove} ELSE Draws(legal, dev)

\* play_game_once, one iteration with turn == 'O' (opponent = random_opponent_move)
OppTurn ==
    /\ pc = "play"
    /\ turn = "O"
    /\ \E move \in random_opponent_move(cells, deviations) :
          IF move = NoMove
          THEN \* break: play_game_once returns None, and "res, hist = ..."
               \* in train_menace raises TypeError
               /\ pc' = "crashed"
               /\ UNCHANGED << gameVars, deviations >>
          ELSE \E mm \in {make_move(cells, move, "O")} :
               \E w \in {winner(mm.cells)} :
                  /\ deviations' = deviations + Deviation(available_moves(cells), move)
                  /\ cells' = mm.cells
                  /\ res' = w
                  /\ history' = history
                  /\ IF w # None
                     THEN pc' = "returned" /\ turn' = turn
                     ELSE pc' = pc /\ turn' = "X"
    /\ UNCHANGED << matchboxes, agentCfg, trainVars, last >>

report_due_no_final(n, every, games) == n % every = 0

\* if i % report_every == 0 or i == n_games
report_due(n, every, games) == n % every = 0 \/ n = games

\* the rates of a snapshot, as pairs numerator / denominator
Snapshot(n, t) ==
    [games |-> n, wins |-> t["X"], draws |-> t["D"], losses |-> t["O"],
     winrate |-> << t["X"], n >>, drawrate |-> << t["D"], n >>,
     losrate |-> << t["O"], n >>]

\* train_menace, the loop body after play_game_once returned (res, hist)
FinishGame ==
    /\ pc = "returned"
    /\ LET t == [totals EXCEPT ![res] = @ + 1]
       IN  /\ totals' = t
           /\ matchboxes' = update(matchboxes, history, res,
                                   reward_win, reward_draw, reward_loss)
           /\ stats' = IF report_due(i, report_every, n_games)
                       THEN Append(stats, Snapshot(i, t))
                       ELSE stats
    /\ last' = [op |-> "update", history |-> history, result |-> res,
                before |-> beads_of(matchboxes, history)]
    /\ pc' = "loop"
    /\ UNCHANGED << agentCfg, gameVars, n_games, report_every, i, deviations >>

\* train_menace: return m, stats
Return ==
    /\ pc = "loop"
    /\ i = n_games
    /\ pc' = "done"
    /\ UNCHANGED << matchboxes, agentCfg, gameVars, trainVars, last, deviations >>

Next == StartGame \/ AgentTurn \/ OppTurn \/ FinishGame \/ Return

Spec == Init /\ [][Next]_vars

----------------------------------------------------------------------------
(* The pure functions of menace.py, applied to every 9-cell board *)

Boards == [Idx -> Symbols]

InitCanon ==
    /\ cells \in Boards
    /\ matchboxes = EmptyDict
    /\ init_beads = 4
    /\ reward_win = 3
    /\ reward_draw = 1
    /\ reward_loss = -1
    /\ n_games = 1
    /\ report_every = 1
    /\ i = 0
    /\ totals = [X |-> 0, O |-> 0, D |-> 0]
    /\ stats = << >>
    /\ turn = "X"
    /\ history = << >>
    /\ res = None
    /\ pc = "canon"
    /\ last = [op |-> "init"]
    /\ deviations = 0

\* permute(cells, TRANSFORMS[t]), then canonicalize of the image, and
\* invert_perm(TRANSFORMS[t])
Transform(t) ==
    /\ pc = "canon"
    /\ cells' = permute(cells, TRANSFORMS[t])
    /\ \E c \in {canonicalize(permute(cells, TRANSFORMS[t]))} :
          last' = [op |-> "canonicalize", board |-> cells, t |-> t,
                   key |-> c.key, perm |-> c.perm,
                   inv |-> invert_perm(TRANSFORMS[t])]
    /\ pc' = "canon_done"
    /\ UNCHANGED << matchboxes, agentCfg, turn, history, res, trainVars,
                    deviations >>

NextCanon == \E t \in 1..Len(TRANSFORMS) : Transform(t)

SpecCanon == InitCanon /\ [][NextCanon]_vars

----------------------------------------------------------------------------
(* class Board, make_move called with any index and symbol *)

\* b = Board()
InitBoard ==
    /\ cells = EmptyBoard
    /\ matchboxes = EmptyDict
    /\ init_beads = 4
    /\ reward_win = 3
    /\ reward_draw = 1
    /\ reward_loss = -1
    /\ n_games = 1
    /\ report_every = 1
    /\ i = 0
    /\ totals = [X |-> 0, O |-> 0, D |-> 0]
    /\ stats = << >>
    /\ turn = "X"
    /\ history = << >>
    /\ res = None
    /\ pc = "board"
    /\ last = [op |-> "init"]
    /\ deviations = 0

\* ok = b.make_move(index, symbol)
CallMakeMove(index, symbol) ==
    /\ pc = "board"
    /\ \E mm \in {make_move(cells, index, symbol)} :
          /\ cells' = mm.cells
          /\ last' = [op |-> "make_move", index |-> index, symbol |-> symbol,
                      ok |-> mm.ok]
    /\ UNCHANGED << matchboxes, agentCfg, turn, history, res, trainVars, pc,
                    deviations >>

NextBoard == \E index \in Idx : \E symbol \in {"X", "O"} : CallMakeMove(index, symbol)

SpecBoard == InitBoard /\ [][NextBoard]_vars

----------------------------------------------------------------------------
(* The interface of class MENACE, called in any order *)

\* tests/test_game.py: the drawn board, no empty cell
FullBoard ==
    [c \in Idx |-> << "X", "O", "X", "X", "O", "O", "O", "X", "X" >>[c + 1]]

\* X in cell 0, O in cell 7: canonicalize picks the rotation by 270 degrees
SkewBoard == [EmptyBoard EXCEPT ![0] = "X", ![7] = "O"]

\* the boards a caller passes to choose_move and inspect_box
ArgBoards ==
    { EmptyBoard, SkewBoard, permute(SkewBoard, TRANSFORMS[2]), FullBoard }

InitAgent ==
    /\ matchboxes = EmptyDict
    /\ init_beads \in 1..MaxInitBeads
    /\ reward_win = 3
    /\ reward_draw = 1
    /\ reward_loss = -1
    /\ n_games = 1
    /\ report_every = 1
    /\ i = 0
    /\ totals = [X |-> 0, O |-> 0, D |-> 0]
    /\ stats = << >>
    /\ cells = EmptyBoard
    /\ turn = "X"
    /\ history = << >>
    /\ res = None
    /\ pc = "agent"
    /\ last = [op |-> "init"]
    /\ deviations = MaxDeviations   \* the draws return the first element of the pool

\* move, log = m.choose_move(board); history.append(log)
CallChooseMove(board) ==
    /\ pc = "agent"
    /\ Len(history) < MaxHist
    /\ \E r \in choose_move(matchboxes, init_beads, board, deviations) :
          /\ matchboxes' = r.boxes
          /\ last' = r.ret
          /\ deviations' = deviations + r.cost
          /\ history' = IF "raised" \in DOMAIN r.ret THEN history
                        ELSE Append(history, r.ret.log)
    /\ UNCHANGED << agentCfg, cells, turn, res, trainVars, pc >>

\* can_str, mapping = m.inspect_box(board)
CallInspectBox(board) ==
    /\ pc = "agent"
    /\ \E r \in {inspect_box(matchboxes, init_beads, board)} :
           /\ matchboxes' = r.boxes
           /\ last' = [op |-> "inspect_box", board |-> board,
                       created |-> r.can_str \notin DOMAIN matchboxes,
                       can_str |-> r.can_str, mapping |-> r.mapping]
    /\ UNCHANGED << agentCfg, gameVars, trainVars, pc, deviations >>

\* m.update(history, result)
CallUpdate(result) ==
    /\ pc = "agent"
    /\ \E mb \in {update(matchboxes, history, result,
                        reward_win, reward_draw, reward_loss)} :
           /\ \A k \in DOMAIN mb : \A m \in DOMAIN mb[k] : mb[k][m] <= MaxBeads
           /\ matchboxes' = mb
    /\ last' = [op |-> "update", history |-> history, result |-> result,
                before |-> beads_of(matchboxes, history)]
    /\ UNCHANGED << agentCfg, gameVars, trainVars, pc, deviations >>

\* history = []: the caller starts a new history
NewHistory ==
    /\ pc = "agent"
    /\ history # << >>
    /\ history' = << >>
    /\ last' = [op |-> "new_history"]
    /\ UNCHANGED << matchboxes, agentCfg, cells, turn, res, trainVars, pc,
                    deviations >>

NextAgent ==
    \/ \E board \in ArgBoards : CallChooseMove(board)
    \/ \E board \in ArgBoards : CallInspectBox(board)
    \/ \E result \in {"X", "D", "O"} : CallUpdate(result)
    \/ NewHistory

SpecAgent == InitAgent /\ [][NextAgent]_vars

\* history.append(log), log being an entry another MENACE instance returned
\* for board: its key has no matchbox in this instance
AppendForeign(board) ==
    /\ pc = "agent"
    /\ Len(history) < MaxHist
    /\ \E c \in {canonicalize(board)} :
          /\ c.key \notin DOMAIN matchboxes
          /\ \E m \in Idx :
                /\ c.key[m + 1] = EMPTY
                /\ \A x \in 0..(m - 1) : c.key[x + 1] # EMPTY
                /\ history' = Append(history, << c.key, m >>)
                /\ last' = [op |-> "foreign_entry", board |-> board,
                            log |-> << c.key, m >>]
    /\ UNCHANGED << matchboxes, agentCfg, cells, turn, res, trainVars, pc,
                    deviations >>

NextForeign ==
    \/ NextAgent
    \/ \E board \in ArgBoards : AppendForeign(board)

\* the interface of class MENACE, with histories that hold entries of keys
\* the instance has no matchbox for
SpecForeign == InitAgent /\ [][NextForeign]_vars

\* the interpreter runs the driver on: a step that can be taken is taken
InitFair == Init /\ n_games <= MaxFairGames /\ report_every = 1

SpecFair == InitFair /\ [][Next]_vars /\ WF_vars(Next)

----------------------------------------------------------------------------
(* Properties *)

Count(b, sym) == Cardinality({c \in Idx : b[c] = sym})

\* the 8 lines of the grid: 3 rows, 3 columns, 2 diagonals
GridLines ==
    {{3 * r, 3 * r + 1, 3 * r + 2} : r \in 0..2}
        \cup {{c, c + 3, c + 6} : c \in 0..2}
        \cup {{0, 4, 8}, {2, 4, 6}}

HasLine(b, sym) == \E l \in GridLines : \A c \in l : b[c] = sym

IsFull(b) == \A c \in Idx : b[c] # EMPTY

\* the distinct images of a board under the 8 transforms
Images(b) == {permute(b, TRANSFORMS[t]) : t \in 1..Len(TRANSFORMS)}

\* C1: the move choose_move returns is the cell of the input board that a
\* transform taking the board to its canonical key maps the drawn canonical
\* move to, and that cell is empty on the input board.
C1_ChooseMoveTranslatesBack ==
    (last.op = "choose_move" /\ "move" \in DOMAIN last) =>
        /\ \E t \in 1..Len(TRANSFORMS) :
              /\ Join(permute(last.board, TRANSFORMS[t])) = last.log[1]
              /\ last.move = TRANSFORMS[t][last.log[2] + 1]
        /\ last.board[last.move] = EMPTY

\* C2: every counter of every matchbox is at least 1, whatever calls of
\* choose_move, inspect_box and update were made.
C2_FloorInvariant ==
    \A k \in DOMAIN matchboxes :
        \A m \in DOMAIN matchboxes[k] : matchboxes[k][m] >= 1

C2_FloorEnforced ==
    /\ pc = "agent"
    /\ last.op = "update"
    /\ last.result = "O"
    /\ init_beads = 1
    /\ Len(last.history) = 2
    /\ \A n \in 1..Len(last.history) :
          /\ last.before[n] = 1
          /\ matchboxes[last.history[n][1]][last.history[n][2]] = 1

\* C3: a board and each of its 8 images have the same canonical key.
C3_SymmetryInvariance ==
    pc = "canon_done" =>
        /\ cells = permute(last.board, TRANSFORMS[last.t])
        /\ last.key = canonicalize(last.board).key

C3_AsymmetricImage ==
    /\ pc = "canon_done"
    /\ last.op = "canonicalize"
    /\ last.t = 2
    /\ last.key # Join(cells)
    /\ last.key # Join(last.board)
    /\ Cardinality(Images(last.board)) = 8

\* C4: during a game the number of X marks is the length of the agent's
\* history, and the X marks exceed the O marks by 0 or 1.
C4_MarksMatchMoves ==
    pc \in {"play", "returned"} =>
        /\ Count(cells, "X") = Len(history)
        /\ Count(cells, "X") - Count(cells, "O") \in {0, 1}

\* C5: no step of a running game changes a counter of an existing matchbox
\* and no step but the one after play_game_once returned calls update; that
\* step is taken on a terminal board and passes update the whole history of
\* the game (one entry per turn of the agent) and winner of the final board,
\* and it ends the game.
C5_UpdateOncePerGame ==
    [][ /\ pc # "returned" =>
              /\ \A k \in DOMAIN matchboxes :
                    k \in DOMAIN matchboxes' /\ matchboxes'[k] = matchboxes[k]
              /\ last' # last => last'.op # "update"
        /\ pc = "returned" =>
              /\ winner(cells) # None
              /\ Len(history) = Count(cells, "O") + (IF turn = "X" THEN 1 ELSE 0)
              /\ last'.op = "update"
              /\ last'.history = history
              /\ last'.result = winner(cells)
              /\ pc' = "loop"
      ]_vars

C5_SecondGameUpdated ==
    /\ pc = "loop"
    /\ i = 2
    /\ last.op = "update"
    /\ Len(last.history) >= 3
    /\ \E n \in 1..Len(last.history) : last.before[n] # init_beads

\* C6: after the call that creates a matchbox, the matchbox has one entry per
\* empty cell of its key, each init_beads; inspect_box on the empty board then
\* returns the 9 positions 0..8, each mapped to init_beads.
C6_FreshMatchbox ==
    (pc = "agent" /\ last.op \in {"choose_move", "inspect_box"} /\ last.created) =>
        LET k == canonicalize(last.board).key
        IN  /\ k \in DOMAIN matchboxes
            /\ DOMAIN matchboxes[k] = {m \in Idx : k[m + 1] = EMPTY}
            /\ \A m \in DOMAIN matchboxes[k] : matchboxes[k][m] = init_beads
            /\ (last.op = "inspect_box" /\ last.board = EmptyBoard) =>
                  last.mapping = [o \in Idx |-> init_beads]

C6_EmptyBoardInspected ==
    /\ pc = "agent"
    /\ last.op = "inspect_box"
    /\ last.created
    /\ last.board = EmptyBoard
    /\ init_beads = 4
    /\ last.mapping = [o \in Idx |-> 4]

\* max(1, c + d), k times
RECURSIVE AddClamped(_, _, _)
AddClamped(c, d, k) ==
    IF k = 0 THEN c
    ELSE AddClamped(IF c + d >= 1 THEN c + d ELSE 1, d, k - 1)

\* C7: update adds +3 (agent-win), +1 (draw) or -1 (opponent-win) to the
\* counter of each history entry, once per occurrence, and a result below 1
\* becomes 1.
C7_UpdateDelta ==
    (pc = "agent" /\ last.op = "update") =>
        LET d == IF last.result = "X" THEN 3
                 ELSE IF last.result = "D" THEN 1 ELSE -1
            h == last.history
        IN  \A n \in 1..Len(h) :
                matchboxes[h[n][1]][h[n][2]] =
                    AddClamped(last.before[n], d,
                               Cardinality({q \in 1..Len(h) : h[q] = h[n]}))

C7_ClampedAtOne ==
    /\ pc = "agent"
    /\ init_beads = 4
    /\ last.op = "update"
    /\ last.result = "O"
    /\ Len(last.history) = 1
    /\ last.before = << 1 >>
    /\ matchboxes[last.history[1][1]][last.history[1][2]] = 1

\* C8: on the board of a game, winner is 'X' (resp. 'O') exactly when that
\* player holds a whole line, 'D' exactly when the board is full without a
\* line, and None otherwise.
C8_WinnerDetection ==
    pc \in {"play", "returned", "loop", "done"} =>
        LET w == winner(cells)
        IN  /\ w = "X" <=> HasLine(cells, "X")
            /\ w = "O" <=> HasLine(cells, "O")
            /\ w = "D" <=> (IsFull(cells) /\ ~HasLine(cells, "X") /\ ~HasLine(cells, "O"))
            /\ w = None <=> (~IsFull(cells) /\ ~HasLine(cells, "X") /\ ~HasLine(cells, "O"))
            /\ winner([EmptyBoard EXCEPT ![0] = "X", ![1] = "X", ![2] = "X"]) = "X"
            /\ winner(FullBoard) = "D"
            /\ winner(EmptyBoard) = None

C8_AntiDiagonalWin ==
    /\ pc = "returned"
    /\ res \in {"X", "O"}
    /\ \A c \in {2, 4, 6} : cells[c] = res
    /\ \A l \in GridLines \ {{2, 4, 6}} : \E c \in l : cells[c] # res

\* C9: the snapshots are those of the games i with i % report_every = 0 or
\* i = n_games, one each, in increasing order, each with wins + draws +
\* losses = games; train_menace returns a non-empty sequence ending at
\* n_games and an agent with a matchbox.
C9_Snapshots ==
    pc \in {"play", "returned", "loop", "done"} =>
        LET finished == IF pc \in {"loop", "done"} THEN i ELSE i - 1
            due == {j \in 1..finished : j % report_every = 0 \/ j = n_games}
        IN  /\ Len(stats) = Cardinality(due)
            /\ {stats[n].games : n \in 1..Len(stats)} = due
            /\ \A n \in 1..Len(stats) :
                  stats[n].wins + stats[n].draws + stats[n].losses = stats[n].games
            /\ \A n \in 1..(Len(stats) - 1) : stats[n].games < stats[n + 1].games
            /\ pc = "done" =>
                  /\ stats # << >>
                  /\ stats[Len(stats)].games = n_games
                  /\ DOMAIN matchboxes # {}

C9_OneSnapshotWhenBothHold ==
    /\ pc = "done"
    /\ n_games = 2
    /\ report_every = 2
    /\ Len(stats) = 1
    /\ stats[1].games = 2
    /\ stats[1].wins + stats[1].draws + stats[1].losses = 2

\* C10: a running game reaches the return of play_game_once, with a result
\* 'X', 'O' or 'D'; the opponent is never asked for a move on a board
\* without an empty cell, and the driver never fails.
C10_GameTerminates ==
    /\ [](pc # "crashed")
    /\ []((pc = "play" /\ turn = "O") => available_moves(cells) # << >>)
    /\ []((pc = "returned") => res \in {"X", "O", "D"})
    /\ ((pc = "play") ~> (pc = "returned"))

C10_DrawnGame ==
    /\ pc = "returned"
    /\ res = "D"
    /\ IsFull(cells)
    /\ ~HasLine(cells, "X")
    /\ ~HasLine(cells, "O")

\* C11: choose_move on a board without an empty cell returns no move: the
\* call ends in an exception raised to the caller (and a call on a board
\* with an empty cell returns a move).
C11_FullBoardFails ==
    (pc = "agent" /\ last.op = "choose_move") =>
        /\ IsFull(last.board) =>
              ("raised" \in DOMAIN last /\ "move" \notin DOMAIN last
                  /\ "log" \notin DOMAIN last)
        /\ ~IsFull(last.board) =>
              ("raised" \notin DOMAIN last /\ last.move \in Idx)

C11_FullBoardRaised ==
    /\ pc = "agent"
    /\ last.op = "choose_move"
    /\ last.board = FullBoard
    /\ "raised" \in DOMAIN last
    /\ last.raised = "IndexError"
    /\ history # << >>

\* C12: make_move on an occupied cell returns False and leaves the 9 cells
\* as they were; on an empty cell it returns True and changes that cell
\* alone, to the given symbol; so no marked cell ever changes.
C12_MakeMoveRejectsOccupied ==
    [][ pc = "board" =>
          /\ last'.op = "make_move"
          /\ IF cells[last'.index] # EMPTY
             THEN /\ last'.ok = FALSE
                  /\ cells' = cells
             ELSE /\ last'.ok = TRUE
                  /\ cells'[last'.index] = last'.symbol
                  /\ \A c \in Idx \ {last'.index} : cells'[c] = cells[c]
          /\ \A c \in Idx : cells[c] # EMPTY => cells'[c] = cells[c]
      ]_vars

C12_OverwriteRejected ==
    /\ pc = "board"
    /\ last.op = "make_move"
    /\ last.ok = FALSE
    /\ cells[last.index] = "X"
    /\ last.symbol = "O"
    /\ Count(cells, "X") + Count(cells, "O") >= 3

\* C13: for each of the 8 transforms P, Q = invert_perm(P) satisfies
\* Q[P[i]] = i and P[Q[i]] = i for every index i in 0..8.
C13_InverseRoundTrip ==
    pc = "canon_done" =>
        LET P == TRANSFORMS[last.t]
            Q == last.inv
        IN  /\ DOMAIN Q = 1..9
            /\ \A x \in Idx : Q[P[x + 1] + 1] = x
            /\ \A x \in Idx : P[Q[x + 1] + 1] = x

C13_RotationInverted ==
    /\ pc = "canon_done"
    /\ last.t = 2
    /\ last.inv = TRANSFORMS[4]
    /\ last.inv # TRANSFORMS[2]

\* C14: the mapping inspect_box returns has exactly the empty cells of the
\* input board as keys, and the cell that the transform chosen by
\* canonicalize sends canonical move m to maps to the counter of m.
C14_InspectBoxOriginalMoves ==
    (pc = "agent" /\ last.op = "inspect_box") =>
        LET c == canonicalize(last.board)
            beads == matchboxes[last.can_str]
        IN  /\ last.can_str = c.key
            /\ DOMAIN last.mapping = {o \in Idx : last.board[o] = EMPTY}
            /\ \A m \in DOMAIN beads :
                  /\ c.perm[m + 1] \in DOMAIN last.mapping
                  /\ last.mapping[c.perm[m + 1]] = beads[m]

\* C15: the board obtained by placing X at the move choose_move returned
\* has the same canonical key as the board obtained by placing X at the
\* logged canonical move on the logged key.
C15_PlayedMoveIsLoggedMove ==
    (pc \in {"play", "returned"} /\ last.op = "choose_move" /\ "move" \in DOMAIN last) =>
        canonicalize(make_move(last.board, last.move, "X").cells).key
            = canonicalize(make_move(ListOf(last.log[1]), last.log[2], "X").cells).key

\* s <= t as Python compares two strings of equal length: by the code
\* points at the first index where they differ
LexLeq(s, t) ==
    \/ s = t
    \/ LET d == CHOOSE n \in 1..Len(s) :
                    s[n] # t[n] /\ \A k \in 1..(n - 1) : s[k] = t[k]
       IN  Ord(s[d]) < Ord(t[d])

\* the list whose entry for the cell in row r, column c is the cell in row
\* a*r + b*c + e, column f*r + g*c + h
GridMap(a, b, e, f, g, h) ==
    [n \in 1..9 |->
        LET r == (n - 1) \div 3
            c == (n - 1) % 3
        IN  3 * (a * r + b * c + e) + (f * r + g * c + h)]

\* identity, rotate-90, rotate-180, rotate-270, reflect-horizontal,
\* reflect-vertical, reflect-main-diagonal, reflect-anti-diagonal
NamedTransforms ==
    << GridMap(1, 0, 0, 0, 1, 0),
       GridMap(0, -1, 2, 1, 0, 0),
       GridMap(-1, 0, 2, 0, -1, 2),
       GridMap(0, 1, 0, -1, 0, 2),
       GridMap(1, 0, 0, 0, -1, 2),
       GridMap(-1, 0, 2, 0, 1, 0),
       GridMap(0, 1, 0, 1, 0, 0),
       GridMap(0, -1, 2, -1, 0, 2) >>

\* C16: the key canonicalize returns is the image of the board under the
\* transform it returns, is <= each of the 8 images, and the transform is
\* the first of the list (identity, rotate-90, rotate-180, rotate-270,
\* reflect-horizontal, reflect-vertical, reflect-main-diagonal,
\* reflect-anti-diagonal) whose image is the key.
C16_FirstMinimalImage ==
    pc = "canon_done" =>
        LET imgs == [t \in 1..Len(TRANSFORMS) |-> Join(permute(cells, TRANSFORMS[t]))]
        IN  /\ TRANSFORMS = NamedTransforms
            /\ last.key = Join(permute(cells, last.perm))
            /\ \A t \in 1..Len(TRANSFORMS) : LexLeq(last.key, imgs[t])
            /\ \E n \in 1..Len(TRANSFORMS) :
                  /\ last.perm = TRANSFORMS[n]
                  /\ imgs[n] = last.key
                  /\ \A k \in 1..(n - 1) : imgs[k] # last.key

C16_TieBrokenByOrder ==
    /\ pc = "canon_done"
    /\ last.perm = TRANSFORMS[2]
    /\ last.key # Join(cells)
    /\ \E t \in 3..Len(TRANSFORMS) :
          Join(permute(cells, TRANSFORMS[t])) = last.key

\* C17: every matchbox has an entry for each empty cell of its key and none
\* for an occupied cell, and the pool choose_move builds from it holds each
\* of these moves at least once (so it is non-empty unless the key is full).
C17_EveryLegalMoveInPool ==
    pc = "agent" =>
        \A k \in DOMAIN matchboxes :
            LET legal == {m \in Idx : k[m + 1] = EMPTY}
                pool == choices_of(matchboxes[k])
            IN  /\ DOMAIN matchboxes[k] = legal
                /\ legal # {} => pool # << >>
                /\ \A m \in legal : \E n \in 1..Len(pool) : pool[n] = m
                /\ \A n \in 1..Len(pool) : pool[n] \in legal

C17_LosingMoveStillInPool ==
    /\ pc = "agent"
    /\ init_beads = 2
    /\ last.op = "update"
    /\ last.result = "O"
    /\ Len(last.history) = 1
    /\ last.before = << 1 >>
    /\ LET k == last.history[1][1]
           m == last.history[1][2]
           pool == choices_of(matchboxes[k])
       IN  /\ matchboxes[k][m] = 1
           /\ Cardinality({n \in 1..Len(pool) : pool[n] = m}) = 1
           /\ Len(pool) > 1

\* the number of entries of history h equal to entry e
Occurrences(h, e) == Cardinality({q \in 1..Len(h) : h[q] = e})

\* C18: update skips a history entry whose key has no matchbox: it creates
\* no matchbox and changes nothing for it, and every other entry of the
\* history is applied (max(1, old + delta), once per occurrence); counters
\* that no entry names are unchanged.
C18_UnknownKeySkipped ==
    [][ (pc = "agent" /\ last'.op = "update") =>
          LET h == last'.history
              d == IF last'.result = "X" THEN reward_win
                   ELSE IF last'.result = "D" THEN reward_draw ELSE reward_loss
          IN  /\ h = history
              /\ DOMAIN matchboxes' = DOMAIN matchboxes
              /\ \A k \in DOMAIN matchboxes :
                    /\ DOMAIN matchboxes'[k] = DOMAIN matchboxes[k]
                    /\ \A m \in DOMAIN matchboxes[k] :
                          matchboxes'[k][m] =
                              AddClamped(matchboxes[k][m], d, Occurrences(h, << k, m >>))
      ]_vars

C18_ForeignEntryThenOwn ==
    /\ pc = "agent"
    /\ last.op = "update"
    /\ last.result = "X"
    /\ Len(last.history) = 2
    /\ last.history[1][1] \notin DOMAIN matchboxes
    /\ last.before[1] = 0
    /\ last.history[2][1] \in DOMAIN matchboxes
    /\ matchboxes[last.history[2][1]][last.history[2][2]] = last.before[2] + 3

\* C19: the set of matchbox keys only grows; a step adds at most one key,
\* only in a choose_move or inspect_box call, the key being the canonical
\* key of the call's board (present after every such call); update leaves
\* the set of keys as it is.
C19_KeysOnlyGrow ==
    [][ pc = "agent" =>
          /\ DOMAIN matchboxes \subseteq DOMAIN matchboxes'
          /\ DOMAIN matchboxes' # DOMAIN matchboxes =>
                /\ last'.op \in {"choose_move", "inspect_box"}
                /\ DOMAIN matchboxes' \ DOMAIN matchboxes
                      = {canonicalize(last'.board).key}
          /\ last'.op \in {"choose_move", "inspect_box"} =>
                /\ canonicalize(last'.board).key \in DOMAIN matchboxes'
                /\ last'.created = (canonicalize(last'.board).key \notin DOMAIN matchboxes)
          /\ last'.op = "update" => DOMAIN matchboxes' = DOMAIN matchboxes
      ]_vars

C19_UpdateKeepsKeys ==
    /\ pc = "agent"
    /\ last.op = "update"
    /\ Cardinality(DOMAIN matchboxes) = 2
    /\ \E n \in 1..Len(last.history) : last.history[n][1] \notin DOMAIN matchboxes
    /\ \E n \in 1..Len(last.history) : last.history[n][1] \in DOMAIN matchboxes

\* C20 as stated: a choose_move call that fails on a full board leaves
\* self.matchboxes as it was before the call.
C20_FailedCallChangesNothing ==
    [][ (pc = "agent" /\ last'.op = "choose_move" /\ "raised" \in DOMAIN last') =>
          matchboxes' = matchboxes
      ]_vars

\* C20 amended: a choose_move call that fails on a full board changes no
\* counter and no existing matchbox and appends nothing to the history; the
\* one key it adds, when absent, is the canonical key of the board, with a
\* matchbox that has no entry.
C20_FailedCallAddsEmptyBox ==
    [][ (pc = "agent" /\ last'.op = "choose_move" /\ "raised" \in DOMAIN last') =>
          LET can_str == canonicalize(last'.board).key
          IN  /\ \A k \in DOMAIN matchboxes :
                    k \in DOMAIN matchboxes' /\ matchboxes'[k] = matchboxes[k]
              /\ DOMAIN matchboxes' = (DOMAIN matchboxes) \cup {can_str}
              /\ DOMAIN matchboxes'[can_str] = {}
              /\ last'.created = (can_str \notin DOMAIN matchboxes)
              /\ history' = history
      ]_vars

C20_EmptyBoxCreated ==
    /\ pc = "agent"
    /\ last.op = "choose_move"
    /\ "raised" \in DOMAIN last
    /\ last.created
    /\ Cardinality(DOMAIN matchboxes) = 3
    /\ matchboxes[canonicalize(FullBoard).key] = EmptyDict
    /\ \E k \in DOMAIN matchboxes : \E m \in DOMAIN matchboxes[k] :
          matchboxes[k][m] # init_beads

\* C21: update changes only counters of (key, move) pairs that occur in the
\* history: every other counter, the set of keys, the set of moves of each
\* matchbox, init_beads and the three rewards are unchanged.
C21_UpdateFrame ==
    [][ (pc = "agent" /\ last'.op = "update") =>
          LET pairs == {history[n] : n \in 1..Len(history)}
          IN  /\ DOMAIN matchboxes' = DOMAIN matchboxes
              /\ \A k \in DOMAIN matchboxes :
                    /\ DOMAIN matchboxes'[k] = DOMAIN matchboxes[k]
                    /\ \A m \in DOMAIN matchboxes[k] :
                          << k, m >> \notin pairs =>
                              matchboxes'[k][m] = matchboxes[k][m]
              /\ init_beads' = init_beads
              /\ reward_win' = reward_win
              /\ reward_draw' = reward_draw
              /\ reward_loss' = reward_loss
      ]_vars

C21_OneCounterChanged ==
    /\ pc = "agent"
    /\ last.op = "update"
    /\ last.result = "D"
    /\ Len(last.history) = 1
    /\ Cardinality(DOMAIN matchboxes) = 2
    /\ LET k == last.history[1][1]
           m == last.history[1][2]
       IN  /\ k \in DOMAIN matchboxes
           /\ last.before[1] = init_beads
           /\ matchboxes[k][m] = init_beads + 1
           /\ \A x \in DOMAIN matchboxes[k] \ {m} : matchboxes[k][x] = init_beads
           /\ \E k2 \in DOMAIN matchboxes \ {k} :
                 /\ DOMAIN matchboxes[k2] # {}
                 /\ \A x \in DOMAIN matchboxes[k2] : matchboxes[k2][x] = init_beads

\* C22: each key stored in matchboxes is its own canonical key, and no two
\* stored keys are images of one another under a transform: matchboxes
\* starts without a key, no step removes a key, and each key a step adds is
\* returned unchanged by canonicalize and is the only one of its 8 images
\* that is stored.
C22_KeysAreCanonical ==
    /\ DOMAIN matchboxes = {}
    /\ [][ /\ DOMAIN matchboxes \subseteq DOMAIN matchboxes'
           /\ \A k \in DOMAIN matchboxes' \ DOMAIN matchboxes :
                 /\ canonicalize(ListOf(k)).key = k
                 /\ {Join(permute(ListOf(k), TRANSFORMS[t])) : t \in 1..Len(TRANSFORMS)}
                       \cap DOMAIN matchboxes' = {k}
         ]_vars

C22_TransformedKeyStored ==
    /\ pc = "play"
    /\ last.op = "choose_move"
    /\ last.created
    /\ last.log[1] # Join(last.board)
    /\ last.log[1] \in DOMAIN matchboxes
    /\ Cardinality(DOMAIN matchboxes) >= 4
    /\ i = 2

====
